---- MODULE Spec2Model ----
(***************************************************************************)
(* Adaptive risk-and-confidence pipeline of TUYUL FX:                      *)
(*   core_cognitive/risk_manager.py            (calculate_risk, cycles)    *)
(*   core_cognitive/modules/*.py               (sizer, calibrator, vault)  *)
(*   core_reflective/risk_feedback_calibrator.py                           *)
(*   core_fusion/montecarlo_confidence.py                                  *)
(*                                                                         *)
(* Floats are modelled as exact rationals held in scaled integers:         *)
(*   a history confidence      in halves          (1 = 0.5)                *)
(*   a history drawdown        in hundredths      (10 = 0.10)              *)
(*   a confidence weight       in 1/WeightOne     (WeightOne = 1.0)        *)
(*   a confidence argument     in hundredths      (93 = 0.93)              *)
(*   a drawdown argument       in hundredths      (20 = 0.20, 200 = 2.0)   *)
(*   a dynamic risk fraction   in 1/400000                                 *)
(*   an adjusted risk fraction in 1/(10000 * FracUnit)                     *)
(***************************************************************************)
EXTENDS Integers, Sequences, FiniteSets, TLC

\* ------------------------------------------------------------------ bounds
MaxHist == 3

MaxClock == 3

MaxEpoch == 2

MaxCycles == 2

\* ----------------------------------------------------------------- numbers
RECURSIVE Gcd(_, _)
Gcd(a, b) == IF b = 0 THEN a ELSE Gcd(b, a % b)

RECURSIVE LcmUpTo(_)
LcmUpTo(n) == IF n <= 1 THEN 1 ELSE (LcmUpTo(n - 1) * n) \div Gcd(LcmUpTo(n - 1), n)

WeightOne == 80 * LcmUpTo(MaxHist)

Abs(x) == IF x < 0 THEN 0 - x ELSE x

Max2(a, b) == IF a > b THEN a ELSE b

Min2(a, b) == IF a < b THEN a ELSE b

\* round(num / den) for den > 0, ties to even, as Python's round()
RoundDiv(num, den) ==
    LET q == num \div den
        r == num % den
    IN  IF 2 * r < den THEN q
        ELSE IF 2 * r > den THEN q + 1
        ELSE IF q % 2 = 0 THEN q ELSE q + 1

RECURSIVE SumSeq(_)
SumSeq(s) == IF s = <<>> THEN 0 ELSE Head(s) + SumSeq(Tail(s))

\* ---------------------------------------------------- JSON values, files
\* A JSON object is a record; the value under a key is <<v>>, and <<>> when the
\* key is absent, null or not a number.
Get(dict, key) == IF key \in DOMAIN dict THEN dict[key] ELSE <<>>

ConfidenceValues == {<<>>, <<-2000>>, <<4>>, <<2000>>}

DrawdownValues == {<<>>, <<-30>>, <<10>>, <<30>>}

RiskRecords == [confidence : ConfidenceValues, drawdown : DrawdownValues]

MetricRecords ==
    [error : {<<>>, <<20>>, <<150>>}, drift : {<<>>, <<-10>>}]
        \cup {[metrics |-> <<[error |-> <<10>>]>>], [metrics |-> <<[drift |-> <<30>>]>>]}

RECURSIVE SeqsUpTo(_, _)
SeqsUpTo(S, n) ==
    IF n = 0 THEN {<<>>}
    ELSE LET shorter == SeqsUpTo(S, n - 1)
         IN  shorter \cup {Append(s, x) : s \in {t \in shorter : Len(t) = n - 1}, x \in S}

\* what a file holds: a JSON object, a JSON list, text that is not JSON, or nothing
JsonDict(d) == [kind |-> "dict", body |-> <<d>>]

JsonList(rows) == [kind |-> "list", body |-> rows]

Malformed == [kind |-> "malformed", body |-> <<>>]

EmptyText == [kind |-> "empty", body |-> <<>>]

\* the vault directory: its files, oldest modification first
SnapshotName == [stem |-> "risk_feedback_calibration", stamp |-> 0]

HasFile(files, name) == \E i \in 1..Len(files) : files[i].name = name

FileIndex(files, name) == CHOOSE i \in 1..Len(files) : files[i].name = name

FileContent(files, name) == files[FileIndex(files, name)].content

RemoveFile(files, name) == SelectSeq(files, LAMBDA f : f.name /= name)

\* a write to a file makes it the most recently modified one
PutFile(files, name, content) ==
    Append(RemoveFile(files, name), [name |-> name, content |-> content])

RECURSIVE Reverse(_)
Reverse(s) == IF s = <<>> THEN <<>> ELSE Append(Reverse(Tail(s)), Head(s))

Take(s, n) == SubSeq(s, 1, Min2(Len(s), Max2(n, 0)))

NoPath == [stem |-> "None", stamp |-> 0]

\* ----------------------------------- core_cognitive RiskFeedbackCalibrator
_safe_float(value, default) == IF value = <<>> THEN default ELSE value[1]

WeightMin == WeightOne \div 2

WeightMax == 3 * (WeightOne \div 2)

RECURSIVE LoadPayloads(_)
LoadPayloads(paths) ==
    IF paths = <<>> THEN <<>>
    ELSE LET payload == Head(paths).content
             rest == LoadPayloads(Tail(paths))
         IN  IF payload.kind = "dict" THEN <<payload.body[1]>> \o rest ELSE rest

\* every *.json file of the vault directory counts, most recently modified first
load_risk_data(files, limit) == LoadPayloads(Take(Reverse(files), limit))

\* variant: the weight is clamped before the drawdown penalty instead of after it
CalibrateWeightClampFirst(risk_data) ==
    LET n == Len(risk_data)
        total == SumSeq([i \in 1..n |-> _safe_float(Get(risk_data[i], "confidence"), 1)])
        absTotal == SumSeq([i \in 1..n |-> Abs(_safe_float(Get(risk_data[i], "drawdown"), 0))])
        clamped == Max2(WeightMin, Min2((3 * n + total) * (WeightOne \div (4 * n)), WeightMax))
    IN  IF absTotal > 10 * n THEN (clamped * 17) \div 20 ELSE clamped

\* variant: the penalty already applies at an average drawdown of exactly 0.10
CalibrateWeightAtThreshold(risk_data) ==
    LET n == Len(risk_data)
        total == SumSeq([i \in 1..n |-> _safe_float(Get(risk_data[i], "confidence"), 1)])
        absTotal == SumSeq([i \in 1..n |-> Abs(_safe_float(Get(risk_data[i], "drawdown"), 0))])
        weight0 == (3 * n + total) * (WeightOne \div (4 * n))
        weight1 == IF absTotal >= 10 * n THEN (weight0 * 17) \div 20 ELSE weight0
    IN  Max2(WeightMin, Min2(weight1, WeightMax))

\* the new weight for a non-empty history
CalibrateWeight(risk_data) ==
    LET confidences == [i \in 1..Len(risk_data) |->
                            _safe_float(Get(risk_data[i], "confidence"), 1)]
        drawdowns == [i \in 1..Len(risk_data) |->
                            _safe_float(Get(risk_data[i], "drawdown"), 0)]
        sample_size == Len(confidences)
        \* average_confidence = sum / n in halves, so
        \* 1.0 + (average_confidence - 0.5) * 0.5 = (3n + sum) / (4n)
        weight0 == (3 * sample_size + SumSeq(confidences)) * (WeightOne \div (4 * sample_size))
        absDrawdowns == [i \in 1..Len(drawdowns) |-> Abs(drawdowns[i])]
        \* average_drawdown > 0.10  <=>  sum|d| / (100 n) > 10 / 100
        penalised == SumSeq(absDrawdowns) > 10 * sample_size
        weight1 == IF penalised THEN (weight0 * 17) \div 20 ELSE weight0
    IN  Max2(WeightMin, Min2(weight1, WeightMax))

NoDataCognitive == [type |-> "dict", status |-> "no_data"]

\* variant: an empty history resets the weight to its constructor value
calibrateResetsOnEmpty(confidence_weight, risk_data) ==
    IF risk_data = <<>>
    THEN [summary |-> NoDataCognitive, confidence_weight |-> WeightOne]
    ELSE [summary |-> [type |-> "CalibrationSummary",
                       new_confidence_weight |-> CalibrateWeight(risk_data),
                       sample_size |-> Len(risk_data),
                       status |-> "updated"],
          confidence_weight |-> CalibrateWeight(risk_data)]

\* the summary returned and the calibrator's confidence_weight after the call
calibrate(confidence_weight, risk_data) ==
    IF risk_data = <<>>
    THEN [summary |-> NoDataCognitive, confidence_weight |-> confidence_weight]
    ELSE LET weight == CalibrateWeight(risk_data)
         IN  [summary |-> [type |-> "CalibrationSummary",
                           new_confidence_weight |-> weight,
                           sample_size |-> Len(risk_data),
                           status |-> "updated"],
              confidence_weight |-> weight]

SnapshotPayload(confidence_weight) ==
    JsonDict([new_confidence_weight |-> <<confidence_weight>>])

\* ---------------------------------- core_reflective RiskFeedbackCalibrator
_ensure_number(value) == value

RECURSIVE _collect_metric(_, _)
_collect_metric(samples, key) ==
    IF samples = <<>> THEN <<>>
    ELSE LET sample == Head(samples)
             direct == _ensure_number(Get(sample, key))
             nested == Get(sample, "metrics")
             number == IF direct = <<>> /\ nested /= <<>>
                       THEN _ensure_number(Get(nested[1], key))
                       ELSE direct
         IN  number \o _collect_metric(Tail(samples), key)

NoDataReflective == [type |-> "dict", status |-> "NO_DATA"]

\* metrics in hundredths; mean_error and calibration_score in millionths
calibrate_reflective(samples) ==
    IF samples = <<>> THEN NoDataReflective
    ELSE LET errors == _collect_metric(samples, "error")
             drift == _collect_metric(samples, "drift")
             baselines == IF errors /= <<>> THEN errors ELSE drift
             total == SumSeq(baselines)
             n == Len(baselines)
             mean_error == IF n > 0 THEN RoundDiv(total * 10000, n) ELSE 0
             \* max(0, min(1, 1 - min(mean_error, 1)))
             calibration_score ==
                 IF n > 0
                 THEN RoundDiv(Max2(0, Min2(100 * n, 100 * n - Min2(total, 100 * n))) * 10000, n)
                 ELSE 1000000
         IN  [type |-> "CalibrationSummary",
              status |-> "READY",
              total_samples |-> Len(samples),
              mean_error |-> mean_error,
              calibration_score |-> calibration_score]

\* ------------------------------------------- core_cognitive VaultRiskSync
NormalizePair(pair) ==
    CASE pair = "EUR/USD" -> "EURUSD"
      [] pair = "eur usd" -> "EURUSD"
      [] pair = "USD/JPY" -> "USDJPY"
      [] OTHER -> pair

Pairs == {"", "EUR/USD", "eur usd"}

\* ------------------------------------------------------------------- state
VARIABLES
    vault,      \* files of data/vault/risk_logs, oldest modification first
    clock,      \* wall clock, in seconds
    cal,        \* per caller: its RiskFeedbackCalibrator and its place in the cycle
    epoch,      \* number of risk logs persisted so far
    written,    \* for each snapshot written, in order, the epoch of the history it came from
    cycles,     \* number of calibration cycles started
    request,    \* the arguments of a calculate_risk call
    response,   \* what that call returned or raised, <<>> before it has run
    montecarlo, \* the MonteCarloConfidence instance of the orchestrator
    mcRuns      \* the run() invocations made on it: arguments and result

riskVars == <<request, response>>

mcVars == <<montecarlo, mcRuns>>

calVars == <<vault, clock, cal, epoch, written, cycles>>

vars == <<calVars, riskVars, mcVars>>

Procs == {1, 2}

Idle ==
    [impl |-> "cognitive", pc |-> "idle", confidence_weight |-> WeightOne,
     last_calibration |-> <<>>, limit |-> 0, risk_data |-> <<>>, summary |-> <<>>,
     saved |-> <<>>, observed |-> <<>>, path |-> NoPath, epoch |-> 0]

\* RiskFeedbackCalibrator(vault_path=...): confidence_weight = 1.0
NewCalibrator(impl, pc, limit) == [Idle EXCEPT !.impl = impl, !.pc = pc, !.limit = limit]

\* run_calibration: a fresh calibrator starts a cycle
RunCalibration(p) ==
    /\ cal[p].pc \in {"idle", "done"}
    /\ cycles < MaxCycles
    /\ \E limit \in {0, MaxHist} :
          cal' = [cal EXCEPT ![p] = NewCalibrator("cognitive", "hydrate", limit)]
    /\ cycles' = cycles + 1
    /\ UNCHANGED <<vault, clock, epoch, written, riskVars, mcVars>>

\* _hydrate_confidence_weight
HydratedWeight(files, confidence_weight) ==
    IF ~HasFile(files, SnapshotName) THEN confidence_weight
    ELSE LET text == FileContent(files, SnapshotName)
         IN  IF text.kind /= "dict" THEN confidence_weight
             ELSE IF "new_confidence_weight" \notin DOMAIN text.body[1] THEN WeightOne
             ELSE _safe_float(text.body[1].new_confidence_weight, confidence_weight)

Hydrate(p) ==
    /\ cal[p].pc = "hydrate"
    /\ LET present == HasFile(vault, SnapshotName)
           text == IF present THEN <<FileContent(vault, SnapshotName)>> ELSE <<>>
       IN  cal' = [cal EXCEPT
                     ![p].observed = text,
                     \* payload.get on a JSON list raises AttributeError, which is not caught
                     ![p].pc = IF present /\ text[1].kind = "list" THEN "raised" ELSE "load",
                     ![p].confidence_weight = HydratedWeight(vault, cal[p].confidence_weight)]
    /\ UNCHANGED <<vault, clock, epoch, written, cycles, riskVars, mcVars>>

Load(p) ==
    /\ cal[p].pc = "load"
    /\ cal' = [cal EXCEPT ![p].risk_data = load_risk_data(vault, cal[p].limit),
                          ![p].epoch = epoch,
                          ![p].pc = "calibrate"]
    /\ UNCHANGED <<vault, clock, epoch, written, cycles, riskVars, mcVars>>

Calibrate(p) ==
    /\ cal[p].pc = "calibrate"
    /\ IF cal[p].impl = "cognitive"
       THEN LET r == calibrate(cal[p].confidence_weight, cal[p].risk_data)
            IN  cal' = [cal EXCEPT ![p].summary = <<r.summary>>,
                                   ![p].confidence_weight = r.confidence_weight,
                                   ![p].pc = "save"]
       ELSE LET r == calibrate_reflective(cal[p].risk_data)
            IN  cal' = [cal EXCEPT ![p].summary = <<r>>,
                                   ![p].last_calibration = <<r>>,
                                   ![p].pc = "save"]
    /\ UNCHANGED <<vault, clock, epoch, written, cycles, riskVars, mcVars>>

\* what save_calibration writes, and where
SavePath(c) ==
    IF c.impl = "cognitive" THEN SnapshotName ELSE [stem |-> "calibration", stamp |-> clock]

SaveText(c) ==
    IF c.impl = "cognitive" THEN SnapshotPayload(c.confidence_weight)
    ELSE LET last == c.last_calibration[1]
         IN  JsonDict([k \in DOMAIN last \ {"type"} |-> <<last[k]>>])

\* save_calibration, first half: open(path, "w") creates or truncates the file
SaveOpen(p) ==
    /\ cal[p].pc = "save"
    /\ \/ /\ cal[p].impl = "reflective" /\ cal[p].last_calibration = <<>>
          /\ cal' = [cal EXCEPT ![p].saved = <<NoPath>>, ![p].pc = "done"]
          /\ UNCHANGED vault
       \/ /\ cal[p].impl = "cognitive" \/ cal[p].last_calibration /= <<>>
          /\ \/ /\ cal' = [cal EXCEPT ![p].path = SavePath(cal[p]), ![p].pc = "write"]
                /\ vault' = PutFile(vault, SavePath(cal[p]), EmptyText)
             \/ \* OSError
                /\ cal' = [cal EXCEPT ![p].saved = <<NoPath>>, ![p].pc = "done"]
                /\ UNCHANGED vault
    /\ UNCHANGED <<clock, epoch, written, cycles, riskVars, mcVars>>

\* save_calibration, second half: the text reaches the file and the path is returned
SaveWrite(p) ==
    /\ cal[p].pc = "write"
    /\ \/ /\ vault' = PutFile(vault, cal[p].path, SaveText(cal[p]))
          /\ cal' = [cal EXCEPT ![p].saved = <<cal[p].path>>, ![p].pc = "done"]
          /\ written' = Append(written, cal[p].epoch)
       \/ \* OSError
          /\ cal' = [cal EXCEPT ![p].saved = <<NoPath>>, ![p].pc = "done"]
          /\ UNCHANGED <<vault, written>>
    /\ UNCHANGED <<clock, epoch, cycles, riskVars, mcVars>>

\* payloads of persisted assessments: confidence 1.0, drawdown 0.0 or 0.30
PersistedRecords == [confidence : {<<2>>}, drawdown : {<<0>>, <<30>>}]

\* VaultRiskSync.save
VaultSave ==
    /\ epoch < MaxEpoch
    /\ \E pair \in Pairs, payload \in PersistedRecords :
          /\ pair /= ""
          /\ LET file_path == [stem |-> NormalizePair(pair), stamp |-> clock]
                 document == [k \in DOMAIN payload \cup {"pair", "timestamp"} |->
                                 IF k = "pair" THEN <<pair>>
                                 ELSE IF k = "timestamp" THEN <<clock>>
                                 ELSE payload[k]]
             IN  \/ vault' = PutFile(vault, file_path, JsonDict(document)) /\ epoch' = epoch + 1
                 \/ UNCHANGED <<vault, epoch>>
    /\ UNCHANGED <<clock, cal, written, cycles, riskVars, mcVars>>

Tick ==
    /\ clock < MaxClock
    /\ clock' = clock + 1
    /\ UNCHANGED <<vault, cal, epoch, written, cycles, riskVars, mcVars>>

\* ------------------------------------------ calibrate and save_calibration
HydratedWeights == {WeightOne, WeightMin}

NoRequest ==
    [balance |-> 0, drawdown |-> 0, reflex_coherence |-> <<>>, confidence |-> <<>>,
     mode |-> <<>>, pair |-> <<>>, entry_price |-> <<>>, stop_loss |-> <<>>,
     pip_value |-> <<>>, calibrator |-> <<>>, persist |-> FALSE, calibrate |-> <<>>,
     calibration_limit |-> 0, alignment_score |-> <<>>]

RiskIdle == request = NoRequest /\ response = <<>>

NoEstimator == [simulations |-> 0, random |-> 0]

McIdle == montecarlo = NoEstimator /\ mcRuns = <<>>

InitCal ==
    /\ RiskIdle
    /\ McIdle
    /\ vault = <<>>
    /\ clock = 0
    /\ epoch = 0
    /\ written = <<>>
    /\ cycles = 0
    /\ \E impl \in {"cognitive", "reflective"} :
       \E pc \in {"calibrate", "save"} :
       \E w \in (IF impl = "cognitive" THEN HydratedWeights ELSE {WeightOne}) :
       \E data \in SeqsUpTo(IF impl = "cognitive" THEN RiskRecords ELSE MetricRecords,
                            IF pc = "calibrate" THEN MaxHist ELSE 0) :
          cal = [p \in Procs |->
                    IF p = 1
                    THEN [NewCalibrator(impl, pc, 0) EXCEPT !.confidence_weight = w,
                                                             !.risk_data = data]
                    ELSE Idle]

NextCal == \E p \in Procs : Calibrate(p) \/ SaveOpen(p) \/ SaveWrite(p)

SpecCal == InitCal /\ [][NextCal]_vars

\* --------------------------------------- adaptive_risk_calculator, sizer
\* a * b = q * c + r with 0 <= r < c, for a, b >= 0 and 0 < c < 2^30, without
\* forming the product a * b
RECURSIVE MulDivMod(_, _, _)
MulDivMod(a, b, c) ==
    IF b = 0 THEN [q |-> 0, r |-> 0]
    ELSE LET h == MulDivMod(a, b \div 2, c)
             r2 == 2 * h.r + (IF b % 2 = 1 THEN a % c ELSE 0)
             q2 == 2 * h.q + (IF b % 2 = 1 THEN a \div c ELSE 0)
         IN  [q |-> q2 + (r2 \div c), r |-> r2 % c]

\* round(a * b / (c1 * c2)), ties to even
RoundMulDiv(a, b, c1, c2) ==
    LET x == MulDivMod(a, b, c1)
        q == x.q \div c2
        m == x.q % c2
        above == 2 * m > c2 \/ (2 * m = c2 /\ x.r > 0) \/ (2 * m = c2 - 1 /\ 2 * x.r > c1)
        tie == (2 * m = c2 /\ x.r = 0) \/ (2 * m = c2 - 1 /\ 2 * x.r = c1)
    IN  IF above THEN q + 1
        ELSE IF tie THEN (IF q % 2 = 0 THEN q ELSE q + 1)
        ELSE q

\* variant: the upper limit is not applied
_clampLowerOnly(value, minimum, maximum) == Max2(minimum, value)

_clamp(value, minimum, maximum) == Max2(minimum, Min2(value, maximum))

\* variant: aggressive mode sizes below normal mode
_MODE_MULTIPLIERSInverted(mode) ==
    CASE mode = "normal" -> 10
      [] mode = "reflexive" -> 9
      [] mode = "aggressive" -> 8
      [] OTHER -> 10

\* mode multipliers, in tenths
_MODE_MULTIPLIERS(mode) ==
    CASE mode = "normal" -> 10
      [] mode = "reflexive" -> 9
      [] mode = "aggressive" -> 12
      [] OTHER -> 10

\* confidence in hundredths; the result in 1/400000:
\* 0.01 * (0.85 + 0.75 * c / 100) * mm / 10 = (340 + 3 c) * mm / 400000
calculate_dynamic_risk(confidence, mode) ==
    LET confidence_value == _clamp(confidence, 0, 100)
        mode_multiplier == _MODE_MULTIPLIERS(mode)
        adaptive_risk == (340 + 3 * confidence_value) * mode_multiplier
    IN  _clamp(adaptive_risk, 0, 10000)

\* one lot-size unit of the adjusted fraction: fraction = n / (10000 * FracUnit)
FracUnit == 640 * WeightOne

_MAX_RISK_FRACTION == 180 * FracUnit

\* variant: a zero price distance is divided by instead of giving no position
calculate_lot_sizeDividing(balance, entry_price, stop_loss, pip_value, risk_fraction) ==
    IF balance <= 0 \/ pip_value <= 0 THEN [raised |-> TRUE, lot |-> 0]
    ELSE IF entry_price <= 0 \/ stop_loss <= 0 THEN [raised |-> TRUE, lot |-> 0]
    ELSE LET pip_distance == Abs(entry_price - stop_loss)
         IN  IF pip_distance = 0 THEN [raised |-> TRUE, lot |-> 0]
             ELSE [raised |-> FALSE,
                   lot |-> IF risk_fraction \div 10000 >= FracUnit
                           THEN RoundMulDiv(1000, balance, 1, pip_distance * pip_value)
                           ELSE RoundMulDiv(Max2(risk_fraction, 0), balance,
                                            10 * FracUnit, pip_distance * pip_value)]

\* prices in pips (1/10000), pip_value in tenths; the lot size in hundredths, or a raise
calculate_lot_size(balance, entry_price, stop_loss, pip_value, risk_fraction) ==
    IF balance <= 0 \/ pip_value <= 0 THEN [raised |-> TRUE, lot |-> 0]
    ELSE IF entry_price <= 0 \/ stop_loss <= 0 THEN [raised |-> TRUE, lot |-> 0]
    ELSE LET pip_distance == Abs(entry_price - stop_loss)
         IN  IF pip_distance = 0 THEN [raised |-> FALSE, lot |-> 0]
             ELSE \* 100 * balance * clamp(n / (10000 FracUnit), 0, 1)
                  \*     / (pip_distance * pip_value / 10)
                  [raised |-> FALSE,
                   lot |-> IF risk_fraction \div 10000 >= FracUnit
                           THEN RoundMulDiv(1000, balance, 1, pip_distance * pip_value)
                           ELSE RoundMulDiv(Max2(risk_fraction, 0), balance,
                                            10 * FracUnit, pip_distance * pip_value)]

\* ----------------------------------------------------------- risk_manager
Lower(mode) ==
    CASE mode = "AGGRESSIVE" -> "aggressive"
      [] mode = "Reflexive" -> "reflexive"
      [] OTHER -> mode

\* drawdown in 1/10000, confidence in hundredths
_normalise_mode(mode, drawdown, confidence) ==
    IF mode /= <<>> /\ mode[1] /= "" /\ Lower(mode[1]) \in {"normal", "reflexive", "aggressive"}
    THEN Lower(mode[1])
    ELSE IF drawdown >= 1200 THEN "reflexive"
    ELSE IF confidence >= 93 /\ drawdown <= 500 THEN "aggressive"
    ELSE "normal"

\* variant: the last tier keeps a quarter of the risk instead of none
calibrate_riskResidual(drawdown) ==
    IF drawdown < 0 THEN [raised |-> "ValueError", multiplier |-> 0]
    ELSE IF drawdown <= 500 THEN [raised |-> "", multiplier |-> 4]
    ELSE IF drawdown <= 1000 THEN [raised |-> "", multiplier |-> 3]
    ELSE IF drawdown <= 1500 THEN [raised |-> "", multiplier |-> 2]
    ELSE [raised |-> "", multiplier |-> 1]

\* variant: each boundary value belongs to the upper tier
calibrate_riskStrict(drawdown) ==
    IF drawdown < 0 THEN [raised |-> "ValueError", multiplier |-> 0]
    ELSE IF drawdown < 500 THEN [raised |-> "", multiplier |-> 4]
    ELSE IF drawdown < 1000 THEN [raised |-> "", multiplier |-> 3]
    ELSE IF drawdown < 1500 THEN [raised |-> "", multiplier |-> 2]
    ELSE [raised |-> "", multiplier |-> 0]

\* the drawdown tier multiplier, in quarters, or the ValueError for a negative
\* drawdown (drawdown in 1/10000)
calibrate_risk(drawdown) ==
    IF drawdown < 0 THEN [raised |-> "ValueError", multiplier |-> 0]
    ELSE IF drawdown <= 500 THEN [raised |-> "", multiplier |-> 4]
    ELSE IF drawdown <= 1000 THEN [raised |-> "", multiplier |-> 3]
    ELSE IF drawdown <= 1500 THEN [raised |-> "", multiplier |-> 2]
    ELSE [raised |-> "", multiplier |-> 0]

\* variant: a missing alignment score counts as full alignment
_resolve_alignment_factorFull(score) ==
    IF score = <<>> THEN 4
    ELSE IF score[1] <= 0 THEN 0
    ELSE _clamp(score[1], 0, 4)

\* the alignment factor, in quarters
_resolve_alignment_factor(score) ==
    IF score = <<>> THEN 2
    ELSE IF score[1] <= 0 THEN 0
    ELSE _clamp(score[1], 0, 4)

\* pip value in tenths
_resolve_pip_value(pair, pip_value) ==
    IF pip_value /= <<>> THEN pip_value[1]
    ELSE IF pair /= <<>> /\ pair[1] \in {"USD/JPY", "usdjpy"} THEN 91
    ELSE 100

\* save_calibration as one step; io says whether open() or write() hits an OSError
save_calibration(files, confidence_weight, io) ==
    IF io = "open_fails" THEN [files |-> files, path |-> NoPath]
    ELSE IF io = "write_fails"
    THEN [files |-> PutFile(files, SnapshotName, EmptyText), path |-> NoPath]
    ELSE [files |-> PutFile(files, SnapshotName, SnapshotPayload(confidence_weight)),
          path |-> SnapshotName]

\* VaultRiskSync.save as one step
vault_save(files, pair, payload, now, io) ==
    IF pair = "" THEN [raised |-> "ValueError", files |-> files, path |-> NoPath]
    ELSE IF io /= "ok" THEN [raised |-> "RuntimeError", files |-> files, path |-> NoPath]
    ELSE LET file_path == [stem |-> NormalizePair(pair), stamp |-> now]
             document == [k \in DOMAIN payload \cup {"pair", "timestamp"} |->
                             IF k = "pair" THEN <<pair>>
                             ELSE IF k = "timestamp" THEN <<now>>
                             ELSE payload[k]]
         IN  [raised |-> "", files |-> PutFile(files, file_path, JsonDict(document)),
              path |-> file_path]

Raised(kind, files, calibrator) ==
    [outcome |-> kind, files |-> files, calibrator |-> calibrator,
     adjusted_fraction |-> 0, dynamic_fraction |-> 0, drawdown_multiplier |-> 0,
     confidence_weight |-> 0, alignment_factor |-> 0, assessment |-> <<>>]

\* lines 193-199: the summary r of calibrate decides the weight; the snapshot is saved
CycleOutcome(files, io, r) ==
    LET saved == save_calibration(files, r.confidence_weight, io)
    IN  [raised |-> "", files |-> saved.files, summary |-> <<r.summary>>,
         path |-> IF r.summary.type = "CalibrationSummary" THEN saved.path ELSE NoPath,
         confidence_weight |-> IF r.summary.type = "CalibrationSummary"
                               THEN r.summary.new_confidence_weight
                               ELSE WeightOne,
         calibrator |-> r.confidence_weight]

\* lines 184-199: the calibration cycle inside calculate_risk; own is the weight of
\* the calibrator the caller passed (1.0 for a new one)
CalibrationCycle(a, files, calibrate_flag, io, own) ==
    IF ~calibrate_flag \/ a.calibration_limit <= 0
    THEN [raised |-> "", files |-> files, summary |-> <<>>, path |-> NoPath,
          confidence_weight |-> WeightOne, calibrator |-> own]
    ELSE IF HasFile(files, SnapshotName) /\ FileContent(files, SnapshotName).kind = "list"
    THEN [raised |-> "AttributeError", files |-> files, summary |-> <<>>, path |-> NoPath,
          confidence_weight |-> WeightOne, calibrator |-> own]
    ELSE CycleOutcome(files, io,
                      calibrate(HydratedWeight(files, own),
                                load_risk_data(files, a.calibration_limit)))

\* lines 236-263: the assessment is logged to the vault when persist is set
PersistAssessment(a, now, io, cycle, locals, assessment) ==
    IF ~a.persist THEN [locals EXCEPT !.assessment = <<assessment>>]
    ELSE IF a.pair = <<>> THEN Raised("ValueError", cycle.files, cycle.calibrator)
    ELSE
    \* the record is stored in the units history records are read in: confidence in
    \* halves, drawdown in hundredths
    LET payload == [balance |-> <<assessment.balance>>,
                    drawdown |-> <<assessment.drawdown \div 100>>,
                    confidence |-> <<assessment.confidence \div 50>>,
                    mode |-> <<assessment.mode>>,
                    risk_fraction |-> <<assessment.risk_fraction>>,
                    risk_amount |-> <<assessment.risk_amount>>,
                    lot_size |-> <<assessment.lot_size>>]
        saved == vault_save(cycle.files, a.pair[1], payload, now, io.log)
    IN  IF saved.raised /= "" THEN Raised(saved.raised, cycle.files, cycle.calibrator)
        ELSE [locals EXCEPT !.files = saved.files,
                            !.assessment = <<[assessment EXCEPT !.vault_log_path = saved.path]>>]

\* lines 206-234: percentages, amount, lot size and the RiskAssessment; s holds the
\* values computed so far
BuildAssessment(a, now, io, cycle, s, sized) ==
    IF sized.raised THEN Raised("ValueError", cycle.files, cycle.calibrator)
    ELSE PersistAssessment(a, now, io, cycle,
            [outcome |-> "returned", files |-> cycle.files, calibrator |-> cycle.calibrator,
             adjusted_fraction |-> s.adjusted_fraction,
             dynamic_fraction |-> s.dynamic_fraction,
             drawdown_multiplier |-> s.drawdown_multiplier,
             confidence_weight |-> cycle.confidence_weight,
             alignment_factor |-> s.alignment_factor,
             assessment |-> <<>>],
            [balance |-> a.balance,
             drawdown |-> s.drawdown_fraction,
             reflex_coherence |-> s.reflex_value,
             base_risk |-> 100,
             adjusted_risk |-> RoundDiv(s.adjusted_fraction, FracUnit),
             risk_fraction |-> RoundDiv(s.adjusted_fraction, FracUnit),
             risk_amount |-> RoundMulDiv(s.adjusted_fraction, a.balance, 100 * FracUnit, 1),
             lot_size |-> sized.lot,
             mode |-> s.mode_literal,
             confidence |-> s.confidence_value,
             dynamic_risk |-> RoundDiv(s.dynamic_fraction, 40),
             alignment_score |-> a.alignment_score,
             calibration |-> cycle.summary,
             calibration_path |-> cycle.path,
             vault_log_path |-> NoPath])

\* lines 201-213: the adjusted fraction and the lot size
SizeRisk(a, now, io, cycle, s) ==
    BuildAssessment(a, now, io, cycle, s,
        IF a.entry_price /= <<>> /\ a.stop_loss /= <<>>
        THEN calculate_lot_size(a.balance, a.entry_price[1], a.stop_loss[1],
                                _resolve_pip_value(a.pair, a.pip_value), s.adjusted_fraction)
        ELSE [raised |-> FALSE, lot |-> 0])

\* lines 201-204: the product of the factors, clamped
AdjustRisk(a, now, io, cycle, s) ==
    IF cycle.raised /= "" THEN Raised(cycle.raised, cycle.files, cycle.calibrator)
    ELSE SizeRisk(a, now, io, cycle,
            [drawdown_fraction |-> s.drawdown_fraction,
             reflex_value |-> s.reflex_value,
             confidence_value |-> s.confidence_value,
             mode_literal |-> s.mode_literal,
             dynamic_fraction |-> s.dynamic_fraction,
             drawdown_multiplier |-> s.drawdown_multiplier,
             alignment_factor |-> s.alignment_factor,
             adjusted_fraction |->
                _clamp(s.dynamic_fraction * s.drawdown_multiplier * cycle.confidence_weight
                          * s.alignment_factor,
                       0, _MAX_RISK_FRACTION)])

\* lines 162-199: reflex, confidence, mode, the three factors and the calibration cycle
ResolveFactors(a, files, now, io, own, drawdown_fraction, reflex_value, confidence_value, mode_literal) ==
    AdjustRisk(a, now, io,
        CalibrationCycle(a, files, IF a.calibrate = <<>> THEN a.persist ELSE a.calibrate[1],
                         io.snapshot, own),
        [drawdown_fraction |-> drawdown_fraction,
         reflex_value |-> reflex_value,
         confidence_value |-> confidence_value,
         mode_literal |-> mode_literal,
         dynamic_fraction |-> calculate_dynamic_risk(confidence_value, mode_literal),
         drawdown_multiplier |-> calibrate_risk(drawdown_fraction).multiplier,
         alignment_factor |-> _resolve_alignment_factor(a.alignment_score)])

\* lines 162-169
ResolveMode(a, files, now, io, own, drawdown_fraction, reflex_value, confidence_value) ==
    ResolveFactors(a, files, now, io, own, drawdown_fraction, reflex_value, confidence_value,
                   _normalise_mode(a.mode, drawdown_fraction, confidence_value))

\* lines 162-167
ResolveConfidence(a, files, now, io, own, drawdown_fraction, reflex_value) ==
    ResolveMode(a, files, now, io, own, drawdown_fraction, reflex_value,
                _clamp(IF a.confidence /= <<>> THEN a.confidence[1] ELSE reflex_value, 0, 100))

\* lines 158-165
ResolveReflex(a, files, now, io, own, drawdown_fraction) ==
    IF drawdown_fraction < 0 THEN Raised("ValueError", files, own)
    ELSE ResolveConfidence(a, files, now, io, own, drawdown_fraction,
            _clamp(IF a.reflex_coherence /= <<>> THEN a.reflex_coherence[1]
                   ELSE a.confidence[1], 0, 100))

\* calculate_risk: a = the arguments, files = the vault, now = the clock,
\* io = the I/O faults met by the snapshot write and by the risk-log write
calculate_risk(a, files, now, io) ==
    IF a.balance <= 0
    THEN Raised("ValueError", files, IF a.calibrator = <<>> THEN WeightOne ELSE a.calibrator[1])
    ELSE IF a.reflex_coherence = <<>> /\ a.confidence = <<>>
    THEN Raised("ValueError", files, IF a.calibrator = <<>> THEN WeightOne ELSE a.calibrator[1])
    ELSE ResolveReflex(a, files, now, io,
                       IF a.calibrator = <<>> THEN WeightOne ELSE a.calibrator[1],
                       IF a.drawdown > 100 THEN a.drawdown ELSE a.drawdown * 100)

\* ------------------------------------------- sequential calibration cycles
MaxLogs == 2

\* vaults without a snapshot: up to MaxLogs risk logs of any content
HistoryVaults ==
    {[i \in DOMAIN records |->
         [name |-> [stem |-> "EURUSD", stamp |-> i], content |-> JsonDict(records[i])]] :
        records \in SeqsUpTo(RiskRecords, MaxLogs)}

InitSequential ==
    /\ RiskIdle
    /\ McIdle
    /\ vault \in HistoryVaults
    /\ clock = 0
    /\ epoch = 0
    /\ written = <<>>
    /\ cycles = 0
    /\ cal = [p \in Procs |-> Idle]

\* one caller: each cycle ends before the next one starts
NextSequential ==
    \/ RunCalibration(1)
    \/ Hydrate(1)
    \/ Load(1)
    \/ Calibrate(1)
    \/ SaveOpen(1)
    \/ SaveWrite(1)

SpecSequential == InitSequential /\ [][NextSequential]_vars

\* ------------------------------------------------ persisted assessments
InitVault ==
    /\ RiskIdle
    /\ McIdle
    /\ vault = <<>>
    /\ clock = 0
    /\ epoch = 0
    /\ written = <<>>
    /\ cycles = 0
    /\ cal = [p \in Procs |-> Idle]

NextVault == VaultSave \/ Tick

SpecVault == InitVault /\ [][NextVault]_vars

\* ------------------------------------------- concurrent calibration cycles
InitialVaults ==
    {<<>>,
     <<[name |-> SnapshotName, content |-> SnapshotPayload(WeightMin)]>>,
     <<[name |-> [stem |-> "EURUSD", stamp |-> 0],
        content |-> JsonDict([confidence |-> <<2>>, drawdown |-> <<0>>])]>>}

InitCycles ==
    /\ RiskIdle
    /\ McIdle
    /\ vault \in InitialVaults
    /\ clock = 0
    /\ epoch = 0
    /\ written = <<>>
    /\ cycles = 0
    /\ cal = [p \in Procs |-> Idle]

NextCycles ==
    \/ \E p \in Procs : RunCalibration(p)
    \/ \E p \in Procs : Hydrate(p)
    \/ \E p \in Procs : Load(p)
    \/ \E p \in Procs : Calibrate(p)
    \/ \E p \in Procs : SaveOpen(p)
    \/ \E p \in Procs : SaveWrite(p)
    \/ VaultSave

SpecCycles == InitCycles /\ [][NextCycles]_vars

\* ----------------------------------------------------- calculate_risk calls
BaseRequest ==
    [NoRequest EXCEPT !.balance = 5000, !.confidence = <<50>>, !.calibration_limit = MaxHist]

\* calls that vary what the risk fraction is computed from
SizingRequests ==
    {[BaseRequest EXCEPT !.drawdown = d, !.confidence = cr[1], !.reflex_coherence = cr[2],
                         !.mode = m, !.alignment_score = s, !.calibrate = k] :
        d \in {-1, 0, 5, 6, 10, 12, 15, 16, 20, 100, 200, 2000},
        cr \in {<<<<>>, <<>>>>, <<<<>>, <<80>>>>, <<<<-50>>, <<>>>>, <<<<0>>, <<>>>>,
                <<<<93>>, <<>>>>, <<<<100>>, <<80>>>>, <<<<150>>, <<>>>>},
        m \in {<<>>, <<"normal">>, <<"reflexive">>, <<"AGGRESSIVE">>, <<"turbo">>},
        s \in {<<>>, <<0>>, <<1>>, <<4>>, <<7>>},
        k \in {<<>>, <<TRUE>>}}

\* calls that vary the order to size and what is persisted
OrderRequests ==
    {[BaseRequest EXCEPT !.balance = b, !.confidence = <<100>>, !.pair = pr,
                         !.entry_price = e, !.stop_loss = sl, !.pip_value = pv,
                         !.persist = ps, !.calibrate = kcl[1], !.calibrator = kcl[2],
                         !.calibration_limit = kcl[3]] :
        b \in {0, 10, 5000},
        pr \in {<<>>, <<"">>, <<"EUR/USD">>, <<"USD/JPY">>},
        e \in {<<>>, <<0>>, <<12500>>},
        sl \in {<<>>, <<12450>>, <<12500>>},
        pv \in {<<>>, <<0>>, <<100>>},
        ps \in BOOLEAN,
        kcl \in {<<<<>>, <<>>, MaxHist>>, <<<<>>, <<WeightMin>>, MaxHist>>,
                 <<<<FALSE>>, <<>>, MaxHist>>, <<<<>>, <<>>, 0>>}}

Requests == SizingRequests \cup OrderRequests

RiskLog(stamp, confidence, drawdown) ==
    [name |-> [stem |-> "EURUSD", stamp |-> stamp],
     content |-> JsonDict([confidence |-> confidence, drawdown |-> drawdown])]

\* risk logs, newer than anything before them, that cannot be parsed
UnreadableLogs ==
    [i \in 1 .. MaxHist |-> [name |-> [stem |-> "GBPUSD", stamp |-> i], content |-> Malformed]]

\* vaults a call can find: no history, a snapshot, risk logs of any magnitude,
\* a file that is not JSON, a snapshot that is not a JSON object, a snapshot older
\* than a window of unreadable logs
RiskVaults ==
    {<<>>,
     <<[name |-> SnapshotName, content |-> SnapshotPayload(WeightMin)]>> \o UnreadableLogs,
     <<[name |-> SnapshotName, content |-> SnapshotPayload(WeightMin)]>>,
     <<RiskLog(0, <<4>>, <<0>>)>>,
     <<RiskLog(0, <<2000>>, <<>>), RiskLog(1, <<4>>, <<10>>)>>,
     <<RiskLog(0, <<-2000>>, <<30>>)>>,
     <<RiskLog(0, <<2>>, <<30>>), [name |-> SnapshotName, content |-> SnapshotPayload(WeightMax)]>>,
     <<RiskLog(0, <<2>>, <<0>>), [name |-> [stem |-> "EURUSD", stamp |-> 1], content |-> Malformed]>>,
     <<[name |-> SnapshotName, content |-> JsonList(<<>>)]>>}

UsesVault(a) == a.persist \/ (a.calibrate /= <<>> /\ a.calibrate[1])

\* the I/O faults a call can meet: none when it does no I/O
IoFaults(a) ==
    [snapshot : IF UsesVault(a) /\ a.calibrate /= <<FALSE>> /\ a.calibration_limit > 0
                THEN {"ok", "open_fails", "write_fails"} ELSE {"ok"},
     log : IF a.persist THEN {"ok", "fails"} ELSE {"ok"}]

InitRisk ==
    /\ McIdle
    /\ request = NoRequest
    /\ vault \in RiskVaults
    /\ clock = 2
    /\ epoch = 0
    /\ written = <<>>
    /\ cycles = 0
    /\ cal = [p \in Procs |-> Idle]
    /\ response = <<>>

\* one call of calculate_risk on the vault; a call that does no vault I/O is
\* taken on the empty vault only
CalculateRisk ==
    /\ response = <<>>
    /\ \E a \in Requests :
          /\ UsesVault(a) \/ vault = <<>>
          /\ \E io \in IoFaults(a) :
                LET r == calculate_risk(a, vault, clock, io)
                IN  /\ request' = a
                    /\ response' = <<[k \in (DOMAIN r \ {"files"}) \cup {"io"} |->
                                         IF k = "io" THEN io ELSE r[k]]>>
                    /\ vault' = r.files
    /\ UNCHANGED <<clock, cal, epoch, written, cycles, mcVars>>

NextRisk == CalculateRisk

SpecRisk == InitRisk /\ [][NextRisk]_vars

\* ------------------------------------------------- load_risk_data calls
\* what a *.json file of the vault can hold: two records, text that is not JSON,
\* JSON that is not an object
LoadContents ==
    {JsonDict([confidence |-> <<4>>, drawdown |-> <<0>>]),
     JsonDict([confidence |-> <<-2000>>, drawdown |-> <<30>>]),
     Malformed,
     JsonList(<<>>)}

\* vaults of up to MaxHist + 1 files, oldest modification first
LoadVaults ==
    {[i \in 1..Len(contents) |->
         [name |-> [stem |-> "EURUSD", stamp |-> i], content |-> contents[i]]] :
        contents \in SeqsUpTo(LoadContents, MaxHist + 1)}

\* a calibrator about to call load_risk_data(limit=...)
InitLoad ==
    /\ McIdle
    /\ RiskIdle
    /\ vault \in LoadVaults
    /\ clock = 0
    /\ epoch = 0
    /\ written = <<>>
    /\ cycles = 0
    /\ \E limit \in 0..MaxHist :
          cal = [p \in Procs |-> IF p = 1 THEN NewCalibrator("cognitive", "load", limit)
                                 ELSE Idle]

NextLoad == \E p \in Procs : Load(p)

SpecLoad == InitLoad /\ [][NextLoad]_vars

\* ------------------------------------------------- calibrate_risk calls
\* drawdown fractions passed to calibrate_risk, in 1/10000
TierDrawdowns == -100 .. 2000

InitTiers ==
    /\ McIdle
    /\ RiskIdle
    /\ vault = <<>>
    /\ clock = 0
    /\ epoch = 0
    /\ written = <<>>
    /\ cycles = 0
    /\ cal = [p \in Procs |-> Idle]

\* one call calibrate_risk(drawdown=d)
CalibrateRisk ==
    /\ response = <<>>
    /\ \E d \in TierDrawdowns :
          /\ request' = [NoRequest EXCEPT !.drawdown = d]
          /\ response' = <<calibrate_risk(d)>>
    /\ UNCHANGED <<calVars, mcVars>>

NextTiers == CalibrateRisk

SpecTiers == InitTiers /\ [][NextTiers]_vars

\* ------------------------------------------- Monte Carlo confidence engine
\* Units: volatility_index in points, confidence_weight in hundredths; base_bias,
\* samples, mean_confidence, reliability_score, bias_mean and volatility_mean in
\* 1/10000; coherence, stability_index and reflective_integrity in hundredths.
Simulations == 3

MaxRuns == 2

\* random.Random is a deterministic generator: each draw is a function of the
\* generator's state and moves the state on; only seeding sets the state.  The
\* generator is a full-period congruential generator over RngPeriod states.
RngPeriod == 16

Seed(seed) == seed % RngPeriod

RngNext(state) == (5 * state + 3) % RngPeriod

\* random.gauss(0, 0.08), in hundredths: a deviate of -2, -1, 0, 1 or 2 sigma
Gauss(state) == ((state % 5) - 2) * 8

\* __init__
MonteCarloConfidence(simulations, seed) ==
    [simulations |-> simulations, random |-> Seed(seed)]

\* the largest r with r * r <= n, searched in lo..hi
RECURSIVE IsqrtIn(_, _, _)
IsqrtIn(n, lo, hi) ==
    IF lo >= hi THEN lo
    ELSE LET mid == (lo + hi + 1) \div 2
         IN  IF mid * mid <= n THEN IsqrtIn(n, mid, hi) ELSE IsqrtIn(n, lo, mid - 1)

Isqrt(n) == IsqrtIn(n, 0, 46340)

RECURSIVE SumSquares(_, _)
SumSquares(s, mean) ==
    IF s = <<>> THEN 0
    ELSE (Head(s) - mean) * (Head(s) - mean) + SumSquares(Tail(s), mean)

\* the sampling loop of run: count draws from the generator in state `state`
RECURSIVE DrawSamples(_, _, _, _)
DrawSamples(count, state, base_bias, volatility_index) ==
    IF count = 0 THEN [samples |-> <<>>, vol_samples |-> <<>>, random |-> state]
    ELSE LET noise == Gauss(state)
             volatility_effect == Max2(40, 100 - (volatility_index - 15) * 3)
             adjusted == base_bias + noise * volatility_effect
             normalized == Max2(0, Min2(10000, adjusted))
             rest == DrawSamples(count - 1, RngNext(state), base_bias, volatility_index)
         IN  [samples |-> <<normalized>> \o rest.samples,
              vol_samples |-> <<volatility_effect * 100>> \o rest.vol_samples,
              random |-> rest.random]

\* run: the statistics returned and the generator state left behind
run(self, a) ==
    LET drawn == DrawSamples(self.simulations, self.random, a.base_bias, a.volatility_index)
        samples == drawn.samples
        mean_conf == RoundDiv(SumSeq(samples), Len(samples))
        bias_mean == a.base_bias
        volatility_mean == RoundDiv(SumSeq(drawn.vol_samples), Len(drawn.vol_samples))
        \* round(max(0, 1 - 3.5 * std_dev), 4), std_dev = sqrt(sum of squares / n)
        spread == (Isqrt((49 * SumSquares(samples, mean_conf)) \div Len(samples)) + 1) \div 2
        reliability_score == Max2(0, 10000 - spread)
        stability_index == RoundDiv(3 * reliability_score + 2 * a.coherence, 5)
        reflective_integrity ==
            RoundMulDiv(mean_conf * reliability_score, a.confidence_weight, 1000000, 1)
    IN  [result |-> [mean_confidence |-> mean_conf,
                     reliability_score |-> reliability_score,
                     stability_index |-> stability_index,
                     total_simulations |-> self.simulations,
                     bias_mean |-> bias_mean,
                     volatility_mean |-> volatility_mean,
                     reflective_integrity |-> reflective_integrity],
         random |-> drawn.random]

RunArguments ==
    [base_bias : {0, 6200, 10000}, coherence : {8000, 10000}, volatility_index : {15, 40},
     confidence_weight : {50, 105, 150}]

\* one call of run on the estimator
Run ==
    /\ Len(mcRuns) < MaxRuns
    /\ \E a \in RunArguments :
          LET r == run(montecarlo, a)
          IN  /\ montecarlo' = [montecarlo EXCEPT !.random = r.random]
              /\ mcRuns' = Append(mcRuns, [args |-> a, result |-> r.result])
    /\ UNCHANGED <<calVars, riskVars>>

\* the estimator of UltraFusionOrchestrator: MonteCarloConfidence(simulations, seed=42)
InitMC ==
    /\ RiskIdle
    /\ vault = <<>>
    /\ clock = 0
    /\ epoch = 0
    /\ written = <<>>
    /\ cycles = 0
    /\ cal = [p \in Procs |-> Idle]
    /\ montecarlo = MonteCarloConfidence(Simulations, 42)
    /\ mcRuns = <<>>

NextMC == Run

SpecMC == InitMC /\ [][NextMC]_vars

\* ------------------------------------------------- bias neutralizer, fusion
\* Units: the three bias inputs in 1/200, volatility_index in points,
\* damping_factor and coherence_gain in hundredths; neutralized_bias in 1/10000;
\* reflective_coherence, fusion_confidence and the final score in hundredths.
MaxFusionCycles == 2

\* BiasNeutralizer(): damping_factor = 0.6, coherence_gain = 1.2
BiasNeutralizer == [damping_factor |-> 60, coherence_gain |-> 120]

\* variant: only the distance between the first two inputs counts
_compute_reflective_coherencePairOnly(f1, f2, s) ==
    10000 - Min2((Isqrt(7500 * 3 * (f1 - f2) * (f1 - f2)) + 1) \div 2, 10000)

\* 1 - min(1.5 * sqrt(((f1-f2)^2 + (f2-s)^2 + (s-f1)^2) / 3), 1), in 1/10000
_compute_reflective_coherence(f1, f2, s) ==
    LET squares == (f1 - f2) * (f1 - f2) + (f2 - s) * (f2 - s) + (s - f1) * (s - f1)
        \* 1.5 * std_dev * 10000 = sqrt(1875 * squares), to the nearest unit
        spread == (Isqrt(7500 * squares) + 1) \div 2
    IN  10000 - Min2(spread, 10000)

\* val = n / 6000000
_bias_state(n) ==
    IF n >= 3960000 THEN "BULLISH"
    ELSE IF n <= 1980000 THEN "BEARISH"
    ELSE "NEUTRAL"

\* neutralize
neutralize(self, fundamental_bias, fusion_bias, sentiment_index, volatility_index) ==
    LET volatility_factor == Max2(10, 100 - (volatility_index - 15) * 3)
        \* damped = base_mean * damping_factor * volatility_factor, in 1/6000000
        damped == (fundamental_bias + fusion_bias + sentiment_index)
                     * self.damping_factor * volatility_factor
        coherence == _compute_reflective_coherence(fundamental_bias, fusion_bias, sentiment_index)
        reflective_coherence == RoundDiv(coherence * self.coherence_gain, 100)
        neutralized_bias == Max2(0, Min2(6000000, damped + 60 * reflective_coherence))
    IN  [neutralized_bias |-> RoundDiv(neutralized_bias, 600),
         reflective_coherence |-> reflective_coherence,
         fusion_confidence |-> RoundDiv(7 * neutralized_bias + 1800 * reflective_coherence, 6000),
         bias_state |-> _bias_state(neutralized_bias)]

\* _neutralize_bias: fundamental_score in hundredths, coherence in points
_neutralize_bias(self, fundamental_score, coherence, volatility_index) ==
    neutralize(self, 2 * fundamental_score, fundamental_score + coherence, 110, volatility_index)

\* _run_montecarlo: the arguments of the run
_run_montecarlo(bias_result, volatility_index) ==
    [base_bias |-> bias_result.neutralized_bias,
     coherence |-> bias_result.reflective_coherence,
     volatility_index |-> volatility_index,
     confidence_weight |-> 105]

\* variant: the weighted sum is not divided by 1.1
final_conf12_scoreUndivided(bias_result, mc_result) ==
    RoundDiv(bias_result.fusion_confidence + mc_result.reflective_integrity, 2)

\* _build_ultra_context: round((fusion_confidence * 0.5 + reflective_integrity * 0.5) / 1.1, 2)
final_conf12_score(bias_result, mc_result) ==
    RoundDiv(5 * (bias_result.fusion_confidence + mc_result.reflective_integrity), 11)

\* what fuse_reflective_context can deliver: the fundamental score is read from a
\* file (hundredths), the alignment score lies in 0..100, the volatility in points
FusionData ==
    [fundamental_score : {-50, 0, 55, 100, 250}, alignment_score : {0, 55, 100},
     volatility_index : {0, 15, 40}]

BiasInputs == {0, 20, 50, 100, 110, 180, 200}

NoBias ==
    [fundamental_bias |-> 0, fusion_bias |-> 0, sentiment_index |-> 0, volatility_index |-> 0]

\* a neutralizer, an estimator seeded with 42, no call made yet
InitFusion ==
    /\ vault = <<>>
    /\ clock = 0
    /\ epoch = 0
    /\ written = <<>>
    /\ cycles = 0
    /\ cal = [p \in Procs |-> Idle]
    /\ request = NoBias
    /\ response = <<>>
    /\ montecarlo = MonteCarloConfidence(Simulations, 42)
    /\ mcRuns = <<>>

\* one call of neutralize
Neutralize ==
    /\ response = <<>>
    /\ mcRuns = <<>>
    /\ \E f1 \in BiasInputs, f2 \in BiasInputs, s \in BiasInputs, v \in {-100, 15, 17, 40, 60} :
          /\ request' = [fundamental_bias |-> f1, fusion_bias |-> f2, sentiment_index |-> s,
                         volatility_index |-> v]
          /\ response' = <<neutralize(BiasNeutralizer, f1, f2, s, v)>>
    /\ UNCHANGED <<calVars, mcVars>>

\* one run_fusion_cycle of the orchestrator on its estimator
RunFusionCycle ==
    /\ response = <<>>
    /\ Len(mcRuns) < MaxFusionCycles
    /\ \E d \in FusionData :
          LET bias_result == _neutralize_bias(BiasNeutralizer, d.fundamental_score,
                                              d.alignment_score, d.volatility_index)
              args == _run_montecarlo(bias_result, d.volatility_index)
              r == run(montecarlo, args)
          IN  /\ montecarlo' = [montecarlo EXCEPT !.random = r.random]
              /\ mcRuns' = Append(mcRuns,
                                  [args |-> args, result |-> r.result,
                                   bias_result |-> bias_result,
                                   final_CONF12_score |->
                                      final_conf12_score(bias_result, r.result)])
    /\ UNCHANGED <<calVars, riskVars>>

NextFusion == Neutralize \/ RunFusionCycle

SpecFusion == InitFusion /\ [][NextFusion]_vars

\* ------------------------------------- core_reflective finalize_trade_cycle
\* file names compare as strings: capitals before lower case, then the time stamp
StemRank(stem) ==
    CASE stem = "EURUSD" -> 1
      [] stem = "GBPUSD" -> 2
      [] stem = "USDJPY" -> 3
      [] stem = "calibration" -> 4
      [] OTHER -> 5

NameBefore(a, b) ==
    \/ StemRank(a.stem) < StemRank(b.stem)
    \/ StemRank(a.stem) = StemRank(b.stem) /\ a.stamp < b.stamp

\* candidates.sort(reverse=True)
LastName(files) ==
    CHOOSE i \in DOMAIN files :
        \A j \in DOMAIN files : j = i \/ NameBefore(files[j].name, files[i].name)

RECURSIVE SortDescending(_)
SortDescending(files) ==
    IF files = <<>> THEN <<>>
    ELSE <<files[LastName(files)]>>
            \o SortDescending(RemoveFile(files, files[LastName(files)].name))

\* a JSON list contributes its rows, a JSON object itself, anything else nothing
EntriesOf(payload) ==
    IF payload.kind = "list" THEN payload.body
    ELSE IF payload.kind = "dict" THEN <<payload.body[1]>>
    ELSE <<>>

RECURSIVE LoadEntries(_)
LoadEntries(paths) ==
    IF paths = <<>> THEN <<>>
    ELSE EntriesOf(Head(paths).content) \o LoadEntries(Tail(paths))

\* core_reflective load_risk_data; limit is <<>> for None
load_risk_data_reflective(files, limit) ==
    LoadEntries(IF limit = <<>> THEN SortDescending(files)
                ELSE Take(SortDescending(files), limit[1]))

\* core_reflective save_calibration of the summary last at time now
save_calibration_reflective(files, last, now, io) ==
    IF io = "open_fails" THEN [files |-> files, path |-> NoPath]
    ELSE IF io = "write_fails"
    THEN [files |-> PutFile(files, [stem |-> "calibration", stamp |-> now], EmptyText),
          path |-> NoPath]
    ELSE [files |-> PutFile(files, [stem |-> "calibration", stamp |-> now],
                            JsonDict([k \in DOMAIN last \ {"type"} |-> <<last[k]>>])),
          path |-> [stem |-> "calibration", stamp |-> now]]

\* lines 30-49: the payload built from the summary, after the snapshot is saved
IntegrityPayload(files, now, io, files_ok, calibration) ==
    [files |-> save_calibration_reflective(files, calibration, now, io).files,
     platform |-> "Linux",
     core_integrity |-> IF files_ok THEN "PASS" ELSE "FAIL",
     modules_verified |-> files_ok,
     feedback_calibration |-> [k \in DOMAIN calibration \ {"type"} |-> calibration[k]]]

\* system_integrity_check: files_ok tells whether the core files exist
system_integrity_check(files, now, io, files_ok) ==
    IntegrityPayload(files, now, io, files_ok,
                     calibrate_reflective(load_risk_data_reflective(files, <<5>>)))

\* lines 61-64
FinalizeResult(integrity, calibration, saved) ==
    [files |-> saved.files,
     platform |-> integrity.platform,
     core_integrity |-> integrity.core_integrity,
     modules_verified |-> integrity.modules_verified,
     feedback_calibration |-> integrity.feedback_calibration,
     calibration |-> calibration,
     calibration_snapshot |-> IF saved.path /= NoPath THEN <<saved.path>> ELSE <<>>]

\* line 59
FinalizeSave(integrity, now, io, calibration) ==
    FinalizeResult(integrity, calibration,
                   save_calibration_reflective(integrity.files, calibration, now, io))

\* lines 56-58
FinalizeCalibrate(integrity, now, vault_limit, io) ==
    FinalizeSave(integrity, now, io,
                 calibrate_reflective(load_risk_data_reflective(integrity.files, <<vault_limit>>)))

\* finalize_trade_cycle(vault_limit=...): io holds the faults of the two snapshot writes
finalize_trade_cycle(files, now, vault_limit, io, files_ok) ==
    FinalizeCalibrate(system_integrity_check(files, now, io.integrity, files_ok),
                      now, vault_limit, io.finalize)

MetricLog(stamp, content) == [name |-> [stem |-> "EURUSD", stamp |-> stamp], content |-> content]

\* vaults a cycle can find: nothing, a file that is not JSON, risk records as
\* JSON objects or as rows of a JSON list
FinalizeRecords ==
    {[error |-> <<20>>, drift |-> <<-10>>], [error |-> <<>>, drift |-> <<>>],
     [metrics |-> <<[drift |-> <<30>>]>>]}

FinalizeVaults ==
    {<<>>, <<MetricLog(0, Malformed)>>}
        \cup {<<MetricLog(0, JsonDict(m))>> : m \in FinalizeRecords}
        \cup {<<MetricLog(0, JsonList(<<m, m>>))>> : m \in FinalizeRecords}

InitFinalize ==
    /\ McIdle
    /\ request = NoRequest
    /\ response = <<>>
    /\ vault \in FinalizeVaults
    /\ clock = 0
    /\ epoch = 0
    /\ written = <<>>
    /\ cycles = 0
    /\ cal = [p \in Procs |-> Idle]

FinalizeTradeCycle ==
    /\ cycles < MaxCycles
    /\ \E vault_limit \in {1, 10}, files_ok \in BOOLEAN :
       \E io \in [integrity : {"ok", "open_fails"},
                  finalize : {"ok", "open_fails", "write_fails"}] :
          LET r == finalize_trade_cycle(vault, clock, vault_limit, io, files_ok)
          IN  /\ response' = <<[k \in DOMAIN r \ {"files"} |-> r[k]]>>
              /\ vault' = r.files
    /\ cycles' = cycles + 1
    /\ UNCHANGED <<clock, cal, epoch, written, request, mcVars>>

NextFinalize == FinalizeTradeCycle \/ Tick

SpecFinalize == InitFinalize /\ [][NextFinalize]_vars

\* ------------------------------------------- core_fusion ema_fusion_engine
\* EMA values in 1/100000; slopes in 1/100000; the sum of three slopes stands for
\* their average, in 1/300000
_SLOPE_WINDOW == 5

\* round((latest - baseline) / max(|baseline|, 1e-6), 5)
_slope(data) ==
    LET baseline == data[Len(data) + 1 - _SLOPE_WINDOW]
        latest == data[Len(data)]
        delta == Abs(latest - baseline)
        magnitude == IF baseline = 0 THEN RoundMulDiv(10 * delta, 100000, 1, 1)
                     ELSE RoundMulDiv(delta, 100000, Abs(baseline), 1)
    IN  IF latest >= baseline THEN magnitude ELSE -magnitude

\* _classify_trend of the average sum3 / 3
_classify_trend(sum3) ==
    IF sum3 >= 180000 THEN "STRONG_UPTREND"
    ELSE IF sum3 <= -180000 THEN "STRONG_DOWNTREND"
    ELSE IF 60000 <= sum3 /\ sum3 < 180000 THEN "MODERATE_UPTREND"
    ELSE IF -180000 < sum3 /\ sum3 <= -60000 THEN "MODERATE_DOWNTREND"
    ELSE "FLAT / NO CLEAR TREND"

\* round(avg_slope, 5)
RoundThird(sum3) == IF sum3 >= 0 THEN RoundDiv(sum3, 3) ELSE -RoundDiv(-sum3, 3)

ema_fusion_engine(ema_short, ema_mid, ema_long) ==
    IF \E data \in {ema_short, ema_mid, ema_long} : Len(data) < _SLOPE_WINDOW
    THEN [outcome |-> "ValueError", ema_slope |-> 0, trend_strength |-> "",
          slope_detail |-> [ema_short |-> 0, ema_mid |-> 0, ema_long |-> 0]]
    ELSE LET short_slope == _slope(ema_short)
             mid_slope == _slope(ema_mid)
             long_slope == _slope(ema_long)
             sum3 == short_slope + mid_slope + long_slope
         IN  [outcome |-> "returned",
              ema_slope |-> RoundThird(sum3),
              trend_strength |-> _classify_trend(sum3),
              slope_detail |-> [ema_short |-> short_slope, ema_mid |-> mid_slope,
                                ema_long |-> long_slope]]

\* EMA series: five or six points from 1.0 or -1.0 to values around the label
\* thresholds, a start at 0, and a series that is too short
EmaSeries ==
    {<<100000, 100000, 100000, 100000, latest>> :
        latest \in {40000, 40001, 80000, 100000, 119999, 120000, 159998, 159999, 160000}}
      \cup {<<7, 100000, 110000, 120000, 130000, 160000>>,
            <<-100000, -90000, -80000, -60000, -40000>>,
            <<0, 0, 0, 0, 1>>,
            <<100000, 110000, 120000, 130000>>}

InitEma ==
    /\ McIdle
    /\ request = NoRequest
    /\ response = <<>>
    /\ vault = <<>>
    /\ clock = 0
    /\ epoch = 0
    /\ written = <<>>
    /\ cycles = 0
    /\ cal = [p \in Procs |-> Idle]

EmaFusionEngine ==
    /\ response = <<>>
    /\ \E ema_short \in EmaSeries, ema_mid \in EmaSeries, ema_long \in EmaSeries :
          /\ request' = [ema_short |-> ema_short, ema_mid |-> ema_mid, ema_long |-> ema_long]
          /\ response' = <<ema_fusion_engine(ema_short, ema_mid, ema_long)>>
    /\ UNCHANGED <<vault, clock, cal, epoch, written, cycles, mcVars>>

NextEma == EmaFusionEngine

SpecEma == InitEma /\ [][NextEma]_vars

\* ================================================================== claims

\* C5: every invocation of MonteCarloConfidence.run with identical arguments on an
\* estimator seeded with 42 returns identical statistics (mean_confidence,
\* reliability_score, stability_index, reflective_integrity), the second and later
\* invocations on the same estimator included.
C5_IdenticalArgumentsIdenticalStatistics ==
    \A i, j \in DOMAIN mcRuns :
        mcRuns[i].args = mcRuns[j].args
        => /\ mcRuns[i].result.mean_confidence = mcRuns[j].result.mean_confidence
           /\ mcRuns[i].result.reliability_score = mcRuns[j].result.reliability_score
           /\ mcRuns[i].result.stability_index = mcRuns[j].result.stability_index
           /\ mcRuns[i].result.reflective_integrity = mcRuns[j].result.reflective_integrity

Returned == response /= <<>> /\ response[1].outcome = "returned"

\* C1: every RiskAssessment returned has risk_fraction in [0, MAX_RISK_FRACTION],
\* also for confidence 1, mode aggressive and calibration weight 1.5.
C1_RiskFractionWithinCeiling ==
    Returned
    => /\ response[1].assessment[1].risk_fraction >= 0
       /\ response[1].assessment[1].risk_fraction * FracUnit <= _MAX_RISK_FRACTION
       /\ response[1].adjusted_fraction >= 0
       /\ response[1].adjusted_fraction <= _MAX_RISK_FRACTION

C1_Witness ==
    /\ Returned
    /\ request.confidence = <<100>>
    /\ response[1].assessment[1].mode = "aggressive"
    /\ response[1].confidence_weight = WeightMax
    /\ request.alignment_score = <<4>>
    /\ response[1].assessment[1].risk_fraction = 180

\* C2: a drawdown fraction above 0.15 (such as drawdown = 0.20) yields an adjusted
\* risk fraction of exactly 0 and a risk_amount of 0, whatever the confidence,
\* mode, alignment score and calibration weight.
C2_KillSwitch ==
    (Returned /\ response[1].assessment[1].drawdown > 1500)
    => /\ response[1].adjusted_fraction = 0
       /\ response[1].assessment[1].risk_fraction = 0
       /\ response[1].assessment[1].risk_amount = 0

C2_Witness ==
    /\ Returned
    /\ request.drawdown = 20
    /\ request.confidence = <<100>>
    /\ response[1].assessment[1].mode = "aggressive"
    /\ request.alignment_score = <<4>>
    /\ response[1].confidence_weight = WeightMax
    /\ response[1].assessment[1].risk_amount = 0

\* C10 as stated: the adjusted fraction is
\* clamp(dynamic_fraction * drawdown_multiplier * calibration_weight, 0, MAX_RISK_FRACTION),
\* with no other factor, also when no alignment score is supplied.
C10_NoOtherFactor ==
    Returned
    => response[1].adjusted_fraction
          = Max2(0, Min2(response[1].dynamic_fraction * response[1].drawdown_multiplier
                            * response[1].confidence_weight * 4,
                         _MAX_RISK_FRACTION))

\* C10 amended: the adjusted fraction is clamp(dynamic_fraction * drawdown_multiplier
\* * calibration_weight * alignment_factor, 0, MAX_RISK_FRACTION), where the alignment
\* factor is 0.5 without an alignment score, 0 for a score <= 0, min(score / 4, 1) otherwise.
C10_WithAlignmentFactor ==
    Returned
    => LET score == request.alignment_score
           quarters == IF score = <<>> THEN 2
                       ELSE IF score[1] <= 0 THEN 0
                       ELSE IF score[1] >= 4 THEN 4
                       ELSE score[1]
       IN  response[1].adjusted_fraction
              = Max2(0, Min2(response[1].dynamic_fraction * response[1].drawdown_multiplier
                                * response[1].confidence_weight * quarters,
                             _MAX_RISK_FRACTION))

C10_Witness ==
    /\ Returned
    /\ request.alignment_score = <<>>
    /\ response[1].drawdown_multiplier = 3
    /\ response[1].confidence_weight = WeightMax
    /\ response[1].adjusted_fraction > 0
    /\ response[1].adjusted_fraction < _MAX_RISK_FRACTION

Calibrated(p) == cal[p].summary /= <<>>

\* C6: calibrate called with an empty history returns a result whose status is
\* exactly NO_DATA, for the core_cognitive and the core_reflective calibrator.
C6_EmptyHistoryStatusNoData ==
    \A p \in Procs :
        (Calibrated(p) /\ cal[p].risk_data = <<>>) => cal[p].summary[1].status = "NO_DATA"

\* C7: calibrate called with an empty history leaves confidence_weight as it was
\* before the call, and the save_calibration that follows writes that value.
C7_EmptyCalibrateKeepsWeight ==
    /\ [][\A p \in Procs :
            (cal[p].impl = "cognitive" /\ cal[p].pc = "calibrate"
                /\ cal[p].risk_data = <<>> /\ cal'[p].pc = "save")
            => /\ cal'[p].confidence_weight = cal[p].confidence_weight
               /\ cal'[p].summary = <<NoDataCognitive>>]_vars
    /\ [][\A p \in Procs :
            (cal[p].impl = "cognitive" /\ cal[p].pc = "write" /\ cal'[p].saved = <<SnapshotName>>)
            => FileContent(vault', SnapshotName).body[1].new_confidence_weight
                   = <<cal[p].confidence_weight>>]_vars

C7_Witness ==
    \E p \in Procs :
        /\ cal[p].impl = "cognitive" /\ cal[p].pc = "done"
        /\ cal[p].summary = <<NoDataCognitive>>
        /\ cal[p].confidence_weight = WeightMin
        /\ cal[p].saved = <<SnapshotName>>
        /\ FileContent(vault, SnapshotName) = SnapshotPayload(WeightMin)

\* C8: for a non-empty history of any magnitude the summary has
\* new_confidence_weight in [0.5, 1.5] and sample_size = number of records.
C8_WeightBoundedSampleCounted ==
    \A p \in Procs :
        (cal[p].impl = "cognitive" /\ Calibrated(p) /\ cal[p].risk_data /= <<>>)
        => /\ cal[p].summary[1].new_confidence_weight >= WeightMin
           /\ cal[p].summary[1].new_confidence_weight <= WeightMax
           /\ cal[p].summary[1].sample_size = Len(cal[p].risk_data)

C8_Witness ==
    \E p \in Procs :
        /\ cal[p].impl = "cognitive" /\ Calibrated(p)
        /\ Len(cal[p].risk_data) >= 2
        /\ \A i \in 1..Len(cal[p].risk_data) :
              /\ cal[p].risk_data[i].confidence = <<-2000>>
              /\ cal[p].risk_data[i].drawdown = <<30>>
        /\ cal[p].summary[1].new_confidence_weight = WeightMin

\* the sums the calibration formula is stated over: confidences default to 0.5,
\* drawdowns to 0.0
ConfidenceTotal(data) ==
    SumSeq([i \in 1..Len(data) |->
              IF Get(data[i], "confidence") = <<>> THEN 1 ELSE data[i].confidence[1]])

DrawdownTotal(data) ==
    SumSeq([i \in 1..Len(data) |->
              IF Get(data[i], "drawdown") = <<>> THEN 0 ELSE data[i].drawdown[1]])

AbsDrawdownTotal(data) ==
    SumSeq([i \in 1..Len(data) |->
              IF Get(data[i], "drawdown") = <<>> THEN 0 ELSE Abs(data[i].drawdown[1])])

\* w = x / y clamped to [0.5, 1.5], in units of 1/WeightOne (y > 0)
IsClampOf(w, x, y) ==
    IF 2 * x <= y THEN w = WeightMin
    ELSE IF 2 * x >= 3 * y THEN w = WeightMax
    ELSE w * y = x * WeightOne

\* C9 as stated: the weight is clamp(1 + (avg_confidence - 0.5) * 0.5, 0.5, 1.5),
\* multiplied by 0.85 exactly when the average drawdown exceeds 0.10.
C9_ClampThenPenalty ==
    \A p \in Procs :
        (cal[p].impl = "cognitive" /\ Calibrated(p) /\ cal[p].risk_data /= <<>>)
        => LET data == cal[p].risk_data
               n == Len(data)
               w == cal[p].summary[1].new_confidence_weight
           IN  IF DrawdownTotal(data) > 10 * n
               THEN \E base \in {WeightMin, WeightMax, (3 * n + ConfidenceTotal(data)) * (WeightOne \div (4 * n))} :
                        /\ IsClampOf(base, 3 * n + ConfidenceTotal(data), 4 * n)
                        /\ 20 * w = 17 * base
               ELSE IsClampOf(w, 3 * n + ConfidenceTotal(data), 4 * n)

\* C9 amended: the weight is clamp(w, 0.5, 1.5) where w = 1 + (avg_confidence - 0.5) * 0.5,
\* multiplied by 0.85 exactly when the average absolute drawdown exceeds 0.10.
C9_PenaltyThenClamp ==
    \A p \in Procs :
        (cal[p].impl = "cognitive" /\ Calibrated(p) /\ cal[p].risk_data /= <<>>)
        => LET data == cal[p].risk_data
               n == Len(data)
               w == cal[p].summary[1].new_confidence_weight
           IN  IF AbsDrawdownTotal(data) > 10 * n
               THEN IsClampOf(w, 17 * (3 * n + ConfidenceTotal(data)), 80 * n)
               ELSE IsClampOf(w, 3 * n + ConfidenceTotal(data), 4 * n)

C9_Witness ==
    \E p \in Procs :
        /\ cal[p].impl = "cognitive" /\ Calibrated(p)
        /\ cal[p].risk_data = <<[confidence |-> <<4>>, drawdown |-> <<-30>>],
                                [confidence |-> <<>>, drawdown |-> <<>>]>>
        /\ 160 * cal[p].summary[1].new_confidence_weight = 17 * 11 * WeightOne

\* C3: a reader of the calibration snapshot that runs while another caller saves
\* sees a complete snapshot (the previous or the new one), never an empty or
\* partial file.
C3_ReaderSeesCompleteSnapshot ==
    \A p \in Procs :
        cal[p].observed /= <<>>
        => /\ cal[p].observed[1].kind = "dict"
           /\ Get(cal[p].observed[1].body[1], "new_confidence_weight") /= <<>>

Finished(p) == cal[p].pc \in {"idle", "done"}

\* C4: when the concurrent cycles have finished, the snapshot left in the vault
\* was not computed from older history than a snapshot written before it.
C4_NoStaleSnapshotWrite ==
    (\A p \in Procs : Finished(p))
    => \A i \in 1..Len(written) : written[i] <= written[Len(written)]

\* C11: every call of calculate_risk with balance <= 0, or pip_value <= 0, or
\* entry_price <= 0, or stop_loss <= 0 raises a validation error and returns no
\* RiskAssessment, whichever other optional arguments are supplied.
C11_InvalidArgumentsRaise ==
    (/\ response /= <<>>
     /\ \/ request.balance <= 0
        \/ (request.pip_value /= <<>> /\ request.pip_value[1] <= 0)
        \/ (request.entry_price /= <<>> /\ request.entry_price[1] <= 0)
        \/ (request.stop_loss /= <<>> /\ request.stop_loss[1] <= 0))
    => /\ response[1].outcome = "ValueError"
       /\ response[1].assessment = <<>>

\* the other arguments are valid and the storage works
OtherwiseValid ==
    /\ request.balance > 0
    /\ request.drawdown >= 0
    /\ request.reflex_coherence /= <<>> \/ request.confidence /= <<>>
    /\ request.pip_value = <<>> \/ request.pip_value[1] > 0
    /\ request.persist => (request.pair /= <<>> /\ request.pair[1] /= "")
    /\ response[1].io = [snapshot |-> "ok", log |-> "ok"]
    /\ ~(HasFile(vault, SnapshotName) /\ FileContent(vault, SnapshotName).kind = "list")

\* C12: for every positive price p, calculate_risk with entry_price = stop_loss = p
\* and otherwise valid inputs returns a RiskAssessment with lot_size = 0.0 and
\* raises no exception.
C12_ZeroDistanceNoPosition ==
    (/\ response /= <<>>
     /\ request.entry_price /= <<>>
     /\ request.entry_price = request.stop_loss
     /\ request.entry_price[1] > 0
     /\ OtherwiseValid)
    => /\ response[1].outcome = "returned"
       /\ response[1].assessment[1].lot_size = 0

C12_Witness ==
    /\ Returned
    /\ request.entry_price = <<12500>>
    /\ request.stop_loss = <<12500>>
    /\ request.pip_value = <<100>>
    /\ request.persist
    /\ response[1].adjusted_fraction > 0
    /\ response[1].assessment[1].risk_amount > 0
    /\ response[1].assessment[1].lot_size = 0

ConfidenceGrid == {-50, 0, 50, 92, 93, 100, 150}

\* the dynamic fraction calculate_risk computes for the arguments a with confidence c
DynamicFractionFor(a, c) ==
    calculate_dynamic_risk(_clamp(c, 0, 100),
                           _normalise_mode(a.mode,
                                           IF a.drawdown > 100 THEN a.drawdown
                                           ELSE a.drawdown * 100,
                                           _clamp(c, 0, 100)))

\* C13: for every mode, also an unset one derived from confidence and drawdown, and
\* confidences c1 <= c2 with the other inputs fixed, the dynamic risk fraction for
\* c2 is not smaller than the one for c1.
C13_DynamicFractionMonotone ==
    (Returned /\ request.confidence /= <<>>)
    => /\ response[1].dynamic_fraction
             = DynamicFractionFor(request, request.confidence[1])
       /\ \A c \in ConfidenceGrid :
             /\ c <= request.confidence[1]
                => DynamicFractionFor(request, c) <= response[1].dynamic_fraction
             /\ c >= request.confidence[1]
                => DynamicFractionFor(request, c) >= response[1].dynamic_fraction

C13_Witness ==
    /\ Returned
    /\ request.mode = <<>>
    /\ request.confidence = <<93>>
    /\ response[1].assessment[1].mode = "aggressive"
    /\ DynamicFractionFor(request, 92) < response[1].dynamic_fraction
    /\ DynamicFractionFor(request, 100) > response[1].dynamic_fraction

\* C14: calibrate_risk(drawdown=d) returns 1.0 for 0 <= d <= 0.05, 0.75 for
\* 0.05 < d <= 0.10, 0.5 for 0.10 < d <= 0.15 and 0.0 for d > 0.15, and raises
\* ValueError for every d < 0.
C14_DrawdownTiers ==
    response /= <<>>
    => LET d == request.drawdown
       IN  /\ d < 0 => response[1].raised = "ValueError"
           /\ (0 <= d /\ d <= 500) => response[1] = [raised |-> "", multiplier |-> 4]
           /\ (500 < d /\ d <= 1000) => response[1] = [raised |-> "", multiplier |-> 3]
           /\ (1000 < d /\ d <= 1500) => response[1] = [raised |-> "", multiplier |-> 2]
           /\ d > 1500 => response[1] = [raised |-> "", multiplier |-> 0]

C14_Witness ==
    /\ response /= <<>>
    /\ request.drawdown = 1000
    /\ response[1] = [raised |-> "", multiplier |-> 3]

\* the payloads of the well-formed record files, most recently modified first
RecordsMostRecentFirst == LoadPayloads(Reverse(vault))

\* C15: for every vault content and every limit >= 0, load_risk_data returns at most
\* limit records, taken from the most recently modified record files first; a
\* malformed or non-record file is skipped and does not prevent the records of the
\* other files from being returned.
C15_LoadsMostRecentRecords ==
    \A p \in Procs :
        cal[p].pc = "calibrate"
        => /\ Len(cal[p].risk_data) <= cal[p].limit
           /\ cal[p].risk_data = Take(RecordsMostRecentFirst, cal[p].limit)

\* C16: when writing the calibration snapshot fails, save_calibration returns None
\* without raising and calculate_risk still returns a RiskAssessment carrying the
\* computed calibration summary with calibration_path = None, whereas a successful
\* write gives a non-null calibration_path.
C16_PathReportsSnapshotWrite ==
    (Returned /\ response[1].assessment[1].calibration /= <<>>)
    => /\ response[1].io.snapshot /= "ok"
          => response[1].assessment[1].calibration_path = NoPath
       /\ response[1].io.snapshot = "ok"
          => /\ response[1].assessment[1].calibration_path = SnapshotName
             /\ HasFile(vault, SnapshotName)

SnapshotFiles ==
    {i \in DOMAIN vault : vault[i].name.stem \in {"risk_feedback_calibration", "calibration"}}

\* C17: after every calibration cycle the vault holds exactly one calibration
\* snapshot, overwritten rather than appended, and it is a single record with the
\* new_confidence_weight, sample_size and status of that cycle's summary.
C17_OneSnapshotOfTheSummary ==
    \A p \in Procs :
        (cal[p].pc = "done" /\ cal[p].saved /= <<>> /\ cal[p].saved[1] /= NoPath)
        => /\ Cardinality(SnapshotFiles) = 1
           /\ \A i \in SnapshotFiles :
                 /\ vault[i].content.kind = "dict"
                 /\ \A k \in {"new_confidence_weight", "sample_size", "status"} :
                       /\ Get(vault[i].content.body[1], k) /= <<>>
                       /\ k \in DOMAIN cal[p].summary[1]
                       /\ Get(vault[i].content.body[1], k) = <<cal[p].summary[1][k]>>

\* C18: for every base_bias in [0,1], coherence in [0,100], volatility index and
\* confidence_weight in [0.5, 1.5], the MonteCarloResult returned by run has
\* mean_confidence in [0,1], reliability_score in [0,1], stability_index in [0,100]
\* and reflective_integrity in [0,100].
C18_MonteCarloResultBounded ==
    \A i \in DOMAIN mcRuns :
        (/\ mcRuns[i].args.base_bias \in 0..10000
         /\ mcRuns[i].args.coherence \in 0..10000
         /\ mcRuns[i].args.confidence_weight \in 50..150)
        => /\ mcRuns[i].result.mean_confidence \in 0..10000
           /\ mcRuns[i].result.reliability_score \in 0..10000
           /\ mcRuns[i].result.stability_index \in 0..10000
           /\ mcRuns[i].result.reflective_integrity \in 0..10000

\* C19: for all fundamental, technical-fusion and sentiment inputs in [0,1] and
\* every volatility value, neutralize returns neutralized_bias in [0,1] and
\* reflective_coherence in [50,96].
C19_NeutralizeBounded ==
    (/\ response /= <<>>
     /\ request.fundamental_bias \in 0..200
     /\ request.fusion_bias \in 0..200
     /\ request.sentiment_index \in 0..200)
    => /\ response[1].neutralized_bias \in 0..10000
       /\ response[1].reflective_coherence \in 5000..9600

\* C20: the final CONF score of a fusion cycle equals
\* (fusion_confidence * 0.5 + reflective_integrity * 0.5) / 1.1, to the two decimal
\* places it is rounded to, and lies in [0,100] for every bias result and Monte
\* Carlo result the pipeline can produce.
C20_FinalScore ==
    \A i \in DOMAIN mcRuns :
        LET weighted == 5 * (mcRuns[i].bias_result.fusion_confidence
                                + mcRuns[i].result.reflective_integrity)
            final == mcRuns[i].final_CONF12_score
        IN  /\ 2 * (11 * final - weighted) <= 11
            /\ 2 * (weighted - 11 * final) <= 11
            /\ final >= 0
            /\ final <= 10000

C20_Witness ==
    \E i \in DOMAIN mcRuns :
        /\ i > 1
        /\ mcRuns[i].bias_result.reflective_coherence = 12000
        /\ mcRuns[i].bias_result.fusion_confidence > 7000
        /\ mcRuns[i].result.reflective_integrity > 0
        /\ mcRuns[i].final_CONF12_score > 4000

\* the reflective coherence neutralize gives when fusion_bias is t and the other
\* arguments are those of the call made
CoherenceWith(t) ==
    neutralize(BiasNeutralizer, request.fundamental_bias, t, request.sentiment_index,
               request.volatility_index).reflective_coherence

NoRiskLogs(files) == \A i \in DOMAIN files : files[i].name = SnapshotName

\* C22: the snapshot written by save_calibration is never read back as a
\* historical risk record: on a vault that contains no risk logs, every
\* run_calibration cycle, the first and each later one, reports the no-data
\* status with no sample counted.
C22_SnapshotIsNotHistory ==
    NoRiskLogs(vault)
    => \A p \in Procs :
          Calibrated(p)
          => /\ cal[p].risk_data = <<>>
             /\ cal[p].summary[1].status = "no_data"
             /\ "sample_size" \notin DOMAIN cal[p].summary[1]

\* the weight of the calibrator a call of calculate_risk starts from
OwnWeight(a) == IF a.calibrator = <<>> THEN WeightOne ELSE a.calibrator[1]

\* C23: when calculate_risk runs a calibration cycle and the history is empty, the
\* calibration weight applied to the adjusted risk fraction is the weight hydrated
\* from the snapshot, and 1.0 only when no snapshot exists.
C23_EmptyHistoryAppliesPersistedWeight ==
    [][(/\ response' /= <<>>
        /\ response'[1].outcome = "returned"
        /\ response'[1].assessment[1].calibration /= <<>>
        /\ response'[1].assessment[1].calibration[1].status = "no_data")
       => response'[1].confidence_weight =
             IF HasFile(vault, SnapshotName)
             THEN HydratedWeight(vault, OwnWeight(request'))
             ELSE WeightOne]_vars

\* C25: whenever calculate_risk raises a validation error, no file in the vault has
\* been created or modified by that call and the calibrator's confidence_weight is
\* unchanged.
C25_ValidationErrorsLeaveNoTrace ==
    [][(response' /= <<>> /\ response'[1].outcome = "ValueError")
       => /\ vault' = vault
          /\ response'[1].calibrator = OwnWeight(request')]_vars

\* the arguments of the call pass every validation of calculate_risk
ValidArguments ==
    /\ request.balance > 0
    /\ request.drawdown >= 0
    /\ request.reflex_coherence /= <<>> \/ request.confidence /= <<>>
    /\ request.pip_value = <<>> \/ request.pip_value[1] > 0
    /\ request.entry_price = <<>> \/ request.entry_price[1] > 0
    /\ request.stop_loss = <<>> \/ request.stop_loss[1] > 0
    /\ request.persist => (request.pair /= <<>> /\ request.pair[1] /= "")
    /\ ~(HasFile(vault, SnapshotName) /\ FileContent(vault, SnapshotName).kind = "list")

\* C26: calculate_risk with persist = True and valid inputs returns a
\* RiskAssessment even when writing the risk log to the vault fails; the failure
\* is reported through a null vault_log_path only.
C26_LogWriteFailureStillReturns ==
    (/\ response /= <<>>
     /\ request.persist
     /\ ValidArguments
     /\ response[1].io.log = "fails")
    => /\ response[1].outcome = "returned"
       /\ response[1].assessment[1].vault_log_path = NoPath

\* drawdown arguments in hundredths: fractions up to 1 and values above 1
DrawdownGrid == {0, 5, 6, 10, 12, 15, 16, 20, 100, 200, 2000}

\* the adjusted fraction of the call made, had its drawdown argument been d
AdjustedFractionFor(d) ==
    calculate_risk([request EXCEPT !.drawdown = d], <<>>, clock,
                   [snapshot |-> "ok", log |-> "ok"]).adjusted_fraction

\* C28: with all other inputs fixed, a larger drawdown argument never yields a
\* larger adjusted risk fraction from calculate_risk, over fractions up to 1 and
\* values above 1.
C28_DrawdownMonotone ==
    (Returned /\ ~UsesVault(request))
    => /\ response[1].adjusted_fraction = AdjustedFractionFor(request.drawdown)
       /\ \A d \in DrawdownGrid :
             d >= request.drawdown
             => AdjustedFractionFor(d) <= response[1].adjusted_fraction

\* C27: every successful VaultRiskSync.save adds a new record to the history:
\* after n persisted assessments, for any pairs and at any times, several within
\* one second included, the vault contains n risk log files.
C27_EverySaveAddsARecord == Len(vault) = epoch

\* C29: starting from a vault without a snapshot and a new calibrator, after any
\* sequence of sequential calibration cycles (hydrate, load, calibrate, save) over
\* any history contents, the new_confidence_weight stored in the snapshot lies in
\* [0.5, 1.5].
C29_SnapshotWeightWithinBounds ==
    \A i \in DOMAIN vault :
        (/\ vault[i].name = SnapshotName
         /\ vault[i].content.kind = "dict")
        => /\ Get(vault[i].content.body[1], "new_confidence_weight") /= <<>>
           /\ vault[i].content.body[1].new_confidence_weight[1] >= WeightMin
           /\ vault[i].content.body[1].new_confidence_weight[1] <= WeightMax

C29_Witness ==
    /\ cycles >= 2
    /\ cal[1].pc = "done"
    /\ cal[1].saved = <<SnapshotName>>
    /\ cal[1].observed /= <<>>
    /\ cal[1].summary[1].status = "updated"
    /\ cal[1].summary[1].sample_size = 3
    /\ FileContent(vault, SnapshotName) = SnapshotPayload(WeightMin)

\* the vault holds no risk records: every file in it is a calibration snapshot
NoRiskRecords(files) == \A i \in DOMAIN files : files[i].name.stem = "calibration"

\* C24: finalize_trade_cycle on a vault that contains no risk records reports a
\* calibration whose status is NO_DATA, on the first cycle and on every later
\* cycle.
C24_NoRecordsNoData ==
    (response /= <<>> /\ NoRiskRecords(vault))
    => response[1].calibration.status = "NO_DATA"

\* C30: for every three EMA series of at least 5 points, the trend label returned
\* by ema_fusion_engine agrees with the ema_slope it reports: the label is
\* STRONG_UPTREND exactly when the reported ema_slope is >= 0.6, and
\* STRONG_DOWNTREND exactly when the reported ema_slope is <= -0.6.
C30_LabelAgreesWithReportedSlope ==
    Returned
    => /\ response[1].trend_strength = "STRONG_UPTREND" <=> response[1].ema_slope >= 60000
       /\ response[1].trend_strength = "STRONG_DOWNTREND" <=> response[1].ema_slope <= -60000

====
